---- MODULE Spec2Model ----
(***************************************************************************)
(* State-machine model of the RPA operations report robot:                 *)
(*   robot_framework/process.py            process()                       *)
(*   robot_framework/sub_processes/report_handler.py   ReportGenerator     *)
(*                                                                         *)
(* One run of process() is modelled step by step (argument parsing, each   *)
(* fetch_data call, rendering, message construction, the SMTP session),    *)
(* interleaved with an environment that writes to the database and moves   *)
(* the database clock.  A second specification, SpecTable, applies         *)
(* convert_to_html_table to result sets drawn from a bounded set.          *)
(*                                                                         *)
(* Strings are sequences of tokens: a token is a piece of text that the    *)
(* model never splits (a tag, a heading, a plain word).  String            *)
(* concatenation is \o.  The literals are written in ASCII: the source's   *)
(* Danish letters are transliterated (ae, oe) and the warning emoji of     *)
(* the subject suffix are left out.                                        *)
(***************************************************************************)
EXTENDS Integers, Sequences, FiniteSets, TLC

VARIABLES
    triggers,           \* table [RPA].[dbo].[Triggers]: id -> row
    scheduled,          \* table [RPA].[dbo].[Scheduled_Triggers]: id -> next_run, or NoRow
    now,                \* GETDATE() of the database server
    writes,             \* number of writes and clock adjustments made by the environment
    pc,                 \* position of the run of process()
    call,               \* which call of generate_html_report is active: 1 = process.py:27, 2 = report_handler.py:199
    qidx,               \* index in QueryOrder of the query being fetched
    process_arguments,  \* the keys of the JSON object orchestrator_connection.process_arguments
    email_settings,     \* dict built by process()
    locals,             \* generate_html_report's locals missed_runs, overdue_processes, process_failures, process_status
    html_report,        \* process()'s html_report: the tuple returned by the first generate_html_report
    html_content,       \* send_email's html_content after line 199
    alert_flag,         \* send_email's alert_flag after line 199
    msg,                \* the MIMEMultipart message built by send_email
    openConns,          \* pyodbc connections opened and not closed
    smtp,               \* the SMTP session: "none", "open", "tls", "closed"
    sent,               \* messages accepted by server.send_message, with the session state at submission
    error,              \* the exception that left process(), "" when none
    executions,         \* per query: how many times cursor.execute completed
    dbErrors,           \* number of fetch_data calls that raised
    smtpErrors,         \* number of SMTP steps that raised
    submitAttempts,     \* number of calls of server.send_message
    dbChanged,          \* a database write happened since the missed-runs query of the report being computed
    clockBack,          \* the clock moved backwards since the missed-runs query of the report being computed
    tpc,                \* SpecTable: "input" before convert_to_html_table is applied, "done" after
    data,               \* SpecTable: the argument of convert_to_html_table
    html_table          \* SpecTable: the result of convert_to_html_table

vars == <<triggers, scheduled, now, writes, pc, call, qidx, process_arguments,
          email_settings, locals, html_report, html_content, alert_flag, msg,
          openConns, smtp, sent, error, executions, dbErrors, smtpErrors,
          submitAttempts, dbChanged, clockBack, tpc, data, html_table>>

dbVars == <<triggers, scheduled, now, writes, dbChanged, clockBack>>
tableVars == <<tpc, data, html_table>>
runVars == <<pc, call, qidx, process_arguments, email_settings, locals, html_report,
             html_content, alert_flag, msg, openConns, smtp, sent, error,
             executions, dbErrors, smtpErrors, submitAttempts>>

(***************************************************************************)
(* Bounds                                                                  *)
(***************************************************************************)
\* timestamps stored in the database are 0..MaxTime (in days); the clock runs over 0..MaxTime+1
MaxTime == 1
\* the environment makes at most MaxWrites writes or clock adjustments during one run
MaxWrites == 1
\* SpecTable: result sets have at most MaxRows rows
MaxRows == 2

Times == 0..MaxTime
Clock == 0..(MaxTime + 1)

(***************************************************************************)
(* The database                                                            *)
(***************************************************************************)
\* SQL NULL in a datetime column
NULL == -1
\* no row with this id in Scheduled_Triggers (the JOIN drops the trigger)
NoRow == -2
\* DATEADD(day, -7, GETDATE())
FailureWindowDays == 7

TriggerIds == {1, 2}
\* trigger_name and process_name of each id; names ascend with the id, so
\* ORDER BY trigger_name is the order of the ids
TriggerNames == <<"T1", "T2">>
ProcessNames == <<"P1", "P2">>
Statuses == {"Done", "Failed"}

\* SQL comparison a < b: not true when either side is NULL
SqlLt(a, b) == a # NULL /\ b # NULL /\ a < b

\* Triggers t JOIN Scheduled_Triggers st ON t.id = st.id
Joined(st) == {i \in TriggerIds : st[i] # NoRow}

\* Python values as pyodbc returns them: str, datetime or None
PyStr(s) == [kind |-> "str", s |-> s, t |-> NULL]
PyDatetime(t) == [kind |-> "datetime", s |-> <<>>, t |-> t]
PyNone == [kind |-> "None", s |-> <<>>, t |-> NULL]
FromSqlTime(t) == IF t = NULL THEN PyNone ELSE PyDatetime(t)

\* f'{value}'
Format(v) ==
    CASE v.kind = "str" -> v.s
      [] v.kind = "datetime" -> <<ToString(v.t)>>
      [] OTHER -> <<"None">>

RECURSIVE OrderByName(_)
\* ORDER BY trigger_name: the ids of S as a sequence, ascending by name
OrderByName(S) ==
    IF S = {} THEN <<>>
    ELSE LET m == CHOOSE i \in S : \A j \in S : i <= j
         IN <<m>> \o OrderByName(S \ {m})

Name(i) == PyStr(<<TriggerNames[i]>>)
Proc(i) == PyStr(<<ProcessNames[i]>>)

\* WHERE st.next_run > GETDATE(): a mutation of the overdue predicate (comparison reversed)
OverdueWhere_Reversed(tr, st, t, i) == SqlLt(t, st[i])
\* WHERE st.next_run < GETDATE()
OverdueWhere(tr, st, t, i) == SqlLt(st[i], t)

\* WHERE t.last_run < st.next_run AND GETDATE() > st.next_run
MissedWhere(tr, st, t, i) == SqlLt(tr[i].last_run, st[i]) /\ SqlLt(st[i], t)

\* WHERE t.process_status = 'Failed' AND t.last_run > DATEADD(day, -7, GETDATE())
FailureWhere(tr, st, t, i) ==
    /\ tr[i].process_status = "Failed"
    /\ tr[i].last_run # NULL
    /\ tr[i].last_run > t - FailureWindowDays

\* WHERE t.last_run IS NOT NULL
StatusWhere(tr, st, t, i) == tr[i].last_run # NULL

\* Each query: the cursor's column names and the rows of fetchall()
missed_runs_query(tr, st, t) ==
    LET ids == OrderByName({i \in Joined(st) : MissedWhere(tr, st, t, i)})
    IN [columns |-> <<"trigger_name", "process_name", "last_run", "next_run">>,
        rows |-> [k \in 1..Len(ids) |->
                    <<Name(ids[k]), Proc(ids[k]),
                      FromSqlTime(tr[ids[k]].last_run), FromSqlTime(st[ids[k]])>>]]

process_failure_query(tr, st, t) ==
    LET ids == OrderByName({i \in TriggerIds : FailureWhere(tr, st, t, i)})
    IN [columns |-> <<"trigger_name", "process_name", "last_run", "process_status">>,
        rows |-> [k \in 1..Len(ids) |->
                    <<Name(ids[k]), Proc(ids[k]),
                      FromSqlTime(tr[ids[k]].last_run), PyStr(<<tr[ids[k]].process_status>>)>>]]

process_status_query(tr, st, t) ==
    LET ids == OrderByName({i \in Joined(st) : StatusWhere(tr, st, t, i)})
    IN [columns |-> <<"trigger_name", "process_status", "next_run", "last_run">>,
        rows |-> [k \in 1..Len(ids) |->
                    <<Name(ids[k]), PyStr(<<tr[ids[k]].process_status>>),
                      FromSqlTime(st[ids[k]]), FromSqlTime(tr[ids[k]].last_run)>>]]

overdue_processes_query(tr, st, t) ==
    LET ids == OrderByName({i \in Joined(st) : OverdueWhere(tr, st, t, i)})
    IN [columns |-> <<"trigger_name", "process_name", "next_run", "last_run">>,
        rows |-> [k \in 1..Len(ids) |->
                    <<Name(ids[k]), Proc(ids[k]),
                      FromSqlTime(st[ids[k]]), FromSqlTime(tr[ids[k]].last_run)>>]]

\* the order in which generate_html_report runs the four reports
QueryOrder == <<"missed_runs", "overdue_processes", "process_failures", "process_status">>

Execute(q, tr, st, t) ==
    CASE q = "missed_runs" -> missed_runs_query(tr, st, t)
      [] q = "overdue_processes" -> overdue_processes_query(tr, st, t)
      [] q = "process_failures" -> process_failure_query(tr, st, t)
      [] OTHER -> process_status_query(tr, st, t)

Min(a, b) == IF a < b THEN a ELSE b

\* dict(zip(columns, row)): the pairs (column, value) in column order
DictZip(columns, row) ==
    [k \in 1..Min(Len(columns), Len(row)) |-> <<columns[k], row[k]>>]

\* data = [dict(zip(columns, row)) for row in results]
fetch_data(columns, results) ==
    [k \in 1..Len(results) |-> DictZip(columns, results[k])]

(***************************************************************************)
(* Rendering                                                               *)
(***************************************************************************)
RECURSIVE Join(_)
\* ''.join(parts)
Join(parts) == IF parts = <<>> THEN <<>> ELSE Head(parts) \o Join(Tail(parts))

\* "<p>Ingen data tilgaengelig.</p>"
Placeholder == <<"<p>", "Ingen data tilgaengelig.", "</p>">>

\* row.keys() and row.values() of a dict, in insertion order
Keys(row) == [k \in 1..Len(row) |-> row[k][1]]
Values(row) == [k \in 1..Len(row) |-> row[k][2]]

\* ''.join(f'<th>{header}</th>' for header in headers)
HeaderHtml(headers) ==
    Join([k \in 1..Len(headers) |-> <<"<th>", headers[k], "</th>">>])

\* '<tr>' + ''.join(f'<td>{value}</td>' for value in row.values()) + '</tr>'
RowHtml(row) ==
    <<"<tr>">>
    \o Join([k \in 1..Len(row) |-> <<"<td>">> \o Format(Values(row)[k]) \o <<"</td>">>])
    \o <<"</tr>">>

convert_to_html_table(d) ==
    IF d = <<>> THEN Placeholder
    ELSE <<"<table>", "<thead>", "<tr>">>
         \o HeaderHtml(Keys(d[1]))
         \o <<"</tr>", "</thead>", "<tbody>">>
         \o Join([k \in 1..Len(d) |-> RowHtml(d[k])])
         \o <<"</tbody>", "</table>">>

\* the fixed pieces of html_template
TemplateHead == "<html><head><style>...</style></head><body>"
HeadingMissed == "<h3>Manglende koersler</h3>"
HeadingFailures == "<h3>Fejlede processer (Sidste 7 Dage)</h3>"
HeadingOverdue == "<h3>Forsinkede processer</h3>"
HeadingStatus == "<h3>Processtatus</h3>"
SectionBreak == "<br/><br/>"
TemplateTail == "</body></html>"

\* template.render(...): the four fragments substituted unescaped (| safe)
RenderTemplate(missed_runs_table, overdue_processes_table, process_failures_table, process_status_table) ==
    <<TemplateHead, HeadingMissed>> \o missed_runs_table
    \o <<SectionBreak, HeadingFailures>> \o process_failures_table
    \o <<SectionBreak, HeadingOverdue>> \o overdue_processes_table
    \o <<SectionBreak, HeadingStatus>> \o process_status_table
    \o <<TemplateTail>>

\* bool(missed_runs): a mutation of the alert rule that forgets the overdue processes
AlertFlag_MissedOnly(missed_runs, overdue_processes) == missed_runs # <<>>
\* alert_flag = bool(missed_runs or overdue_processes)
AlertFlag(missed_runs, overdue_processes) ==
    missed_runs # <<>> \/ overdue_processes # <<>>

\* the value generate_html_report returns for its four result sets
generate_html_report(l) ==
    <<RenderTemplate(convert_to_html_table(l.missed_runs),
                     convert_to_html_table(l.overdue_processes),
                     convert_to_html_table(l.process_failures),
                     convert_to_html_table(l.process_status)),
      AlertFlag(l.missed_runs, l.overdue_processes)>>

(***************************************************************************)
(* The message                                                             *)
(***************************************************************************)
BaseSubject == "RPA - Driftsrapport"
WarningSuffix == " - Advarsel. Handling paakraevet"
PriorityHeaders ==
    << <<"X-Priority", <<"1">> >>,
       <<"X-MSMail-Priority", <<"High">> >>,
       <<"Importance", <<"High">> >> >>

NoMsg == [headers |-> <<>>, parts |-> <<>>]

\* a mutation of the message construction: the Importance header is forgotten
BuildMessage_NoImportance(html, alert, settings) ==
    [headers |->
        (IF alert THEN SubSeq(PriorityHeaders, 1, 2) ELSE <<>>)
        \o << <<"From", <<settings.from_email>> >>,
              <<"To", <<settings.to_email>> >>,
              <<"Subject", IF alert THEN <<BaseSubject, WarningSuffix>> ELSE <<BaseSubject>> >> >>,
     parts |-> << [subtype |-> "html", payload |-> html] >>]
\* send_email, lines 200-214: subject, priority headers, From, To, Subject, the HTML part
BuildMessage(html, alert, settings) ==
    [headers |->
        (IF alert THEN PriorityHeaders ELSE <<>>)
        \o << <<"From", <<settings.from_email>> >>,
              <<"To", <<settings.to_email>> >>,
              <<"Subject", IF alert THEN <<BaseSubject, WarningSuffix>> ELSE <<BaseSubject>> >> >>,
     parts |-> << [subtype |-> "html", payload |-> html] >>]

\* msg[name]: the values of the headers called name
HeaderValues(m, name) ==
    {m.headers[k][2] : k \in {j \in 1..Len(m.headers) : m.headers[j][1] = name}}

(***************************************************************************)
(* The run of process()                                                    *)
(***************************************************************************)
EmptyLocals ==
    [missed_runs |-> <<>>, overdue_processes |-> <<>>,
     process_failures |-> <<>>, process_status |-> <<>>]

NoSettings == [from_email |-> "", to_email |-> "", smtp_server |-> "", smtp_port |-> ""]

\* job arguments: the complete object, and one without the fromEmail key
GoodArguments == [fromEmail |-> "rpa@example", toEmail |-> "drift@example"]
BadArguments == [toEmail |-> "drift@example"]

\* the profiles a trigger starts with: <<last_run, process_status, next_run>>
InitialProfiles ==
    { <<NULL, "Done", NoRow>>,      \* never ran, not scheduled
      <<0, "Failed", 1>> }          \* ran and failed at 0, next run scheduled at 1

\* the run still has a query to execute: only then can a write or a clock step
\* of the environment reach the run
Running == pc \in {"start", "connect", "execute"} \/ (pc = "render" /\ call = 1)

\* an exception leaves process(): the run ends and the caller sees it
Raise(e) == pc' = "failed" /\ error' = e

\* process.py lines 11-25: parse the arguments, build email_settings and the generator
ProcessStart ==
    /\ pc = "start"
    /\ IF {"fromEmail", "toEmail"} \subseteq DOMAIN process_arguments
       THEN /\ email_settings' = [from_email |-> process_arguments.fromEmail,
                                  to_email |-> process_arguments.toEmail,
                                  smtp_server |-> "SMTP_SERVER",
                                  smtp_port |-> "SMTP_PORT"]
            /\ pc' = "connect"
            /\ error' = error
       ELSE /\ Raise("KeyError")
            /\ email_settings' = email_settings
    /\ UNCHANGED <<call, qidx, process_arguments, locals, html_report, html_content,
                   alert_flag, msg, openConns, smtp, sent, executions, dbErrors,
                   smtpErrors, submitAttempts>>
    /\ UNCHANGED dbVars /\ UNCHANGED tableVars

\* fetch_data line 37: pyodbc.connect returns a connection
GetDbConnection ==
    /\ pc = "connect"
    /\ openConns' = openConns + 1
    /\ pc' = "execute"
    /\ UNCHANGED <<call, qidx, process_arguments, email_settings, locals, html_report,
                   html_content, alert_flag, msg, smtp, sent, error, executions,
                   dbErrors, smtpErrors, submitAttempts>>
    /\ UNCHANGED dbVars /\ UNCHANGED tableVars

\* fetch_data line 37: pyodbc.connect raises, no connection exists
GetDbConnectionFails ==
    /\ pc = "connect"
    /\ Raise("DatabaseError")
    /\ dbErrors' = dbErrors + 1
    /\ UNCHANGED <<call, qidx, process_arguments, email_settings, locals, html_report,
                   html_content, alert_flag, msg, openConns, smtp, sent, executions,
                   smtpErrors, submitAttempts>>
    /\ UNCHANGED dbVars /\ UNCHANGED tableVars

\* fetch_data lines 38-44: cursor, execute, description, fetchall, close, zip
FetchData ==
    /\ pc = "execute"
    /\ LET q == QueryOrder[qidx]
           r == Execute(q, triggers, scheduled, now)
       IN /\ locals' = [locals EXCEPT ![q] = fetch_data(r.columns, r.rows)]
          /\ executions' = [executions EXCEPT ![q] = @ + 1]
          /\ IF q = "missed_runs"
             THEN dbChanged' = FALSE /\ clockBack' = FALSE
             ELSE UNCHANGED <<dbChanged, clockBack>>
    /\ openConns' = openConns - 1
    /\ IF qidx < Len(QueryOrder)
       THEN qidx' = qidx + 1 /\ pc' = "connect"
       ELSE qidx' = qidx /\ pc' = "render"
    /\ UNCHANGED <<call, process_arguments, email_settings, html_report, html_content,
                   alert_flag, msg, smtp, sent, error, dbErrors, smtpErrors,
                   submitAttempts>>
    /\ UNCHANGED <<triggers, scheduled, now, writes>> /\ UNCHANGED tableVars

\* a mutation of the failure path: the error is swallowed and the report goes on with no rows
FetchDataFails_Swallowed ==
    /\ pc = "execute"
    /\ dbErrors' = dbErrors + 1
    /\ locals' = [locals EXCEPT ![QueryOrder[qidx]] = <<>>]
    /\ IF qidx < Len(QueryOrder)
       THEN qidx' = qidx + 1 /\ pc' = "connect"
       ELSE qidx' = qidx /\ pc' = "render"
    /\ UNCHANGED <<call, process_arguments, email_settings, html_report,
                   html_content, alert_flag, msg, openConns, smtp, sent, error, executions,
                   smtpErrors, submitAttempts>>
    /\ UNCHANGED dbVars /\ UNCHANGED tableVars
\* fetch_data lines 38-41: cursor(), execute() or fetchall() raises; line 42 is not reached
FetchDataFails ==
    /\ pc = "execute"
    /\ Raise("DatabaseError")
    /\ dbErrors' = dbErrors + 1
    /\ UNCHANGED <<call, qidx, process_arguments, email_settings, locals, html_report,
                   html_content, alert_flag, msg, openConns, smtp, sent, executions,
                   smtpErrors, submitAttempts>>
    /\ UNCHANGED dbVars /\ UNCHANGED tableVars

\* process.py line 27 and 28: the first report is returned to process(), which
\* passes it to send_email; send_email line 199 starts the second report
ProcessGenerateHtmlReport ==
    /\ pc = "render" /\ call = 1
    /\ html_report' = generate_html_report(locals)
    /\ locals' = EmptyLocals
    /\ call' = 2 /\ qidx' = 1 /\ pc' = "connect"
    /\ dbChanged' = FALSE /\ clockBack' = FALSE
    /\ UNCHANGED <<process_arguments, email_settings, html_content, alert_flag, msg,
                   openConns, smtp, sent, error, executions, dbErrors, smtpErrors,
                   submitAttempts>>
    /\ UNCHANGED <<triggers, scheduled, now, writes>> /\ UNCHANGED tableVars

\* send_email line 199: html_content, alert_flag = self.generate_html_report()
SendEmailGenerateHtmlReport ==
    /\ pc = "render" /\ call = 2
    /\ LET r == generate_html_report(locals)
       IN html_content' = r[1] /\ alert_flag' = r[2]
    /\ locals' = EmptyLocals
    /\ pc' = "build"
    /\ dbChanged' = FALSE /\ clockBack' = FALSE
    /\ UNCHANGED <<call, qidx, process_arguments, email_settings, html_report, msg,
                   openConns, smtp, sent, error, executions, dbErrors, smtpErrors,
                   submitAttempts>>
    /\ UNCHANGED <<triggers, scheduled, now, writes>> /\ UNCHANGED tableVars

\* send_email lines 200-214
SendEmailBuildMessage ==
    /\ pc = "build"
    /\ msg' = BuildMessage(html_content, alert_flag, email_settings)
    /\ pc' = "smtp_connect"
    /\ UNCHANGED <<call, qidx, process_arguments, email_settings, locals, html_report,
                   html_content, alert_flag, openConns, smtp, sent, error, executions,
                   dbErrors, smtpErrors, submitAttempts>>
    /\ UNCHANGED dbVars /\ UNCHANGED tableVars

\* send_email line 216: smtplib.SMTP(server, port) connects and the with block is entered
SmtpConnect ==
    /\ pc = "smtp_connect"
    /\ smtp' = "open"
    /\ pc' = "starttls"
    /\ UNCHANGED <<call, qidx, process_arguments, email_settings, locals, html_report,
                   html_content, alert_flag, msg, openConns, sent, error, executions,
                   dbErrors, smtpErrors, submitAttempts>>
    /\ UNCHANGED dbVars /\ UNCHANGED tableVars

\* send_email line 216: the constructor raises; there is no session
SmtpConnectFails ==
    /\ pc = "smtp_connect"
    /\ Raise("SMTPException")
    /\ smtpErrors' = smtpErrors + 1
    /\ UNCHANGED <<call, qidx, process_arguments, email_settings, locals, html_report,
                   html_content, alert_flag, msg, openConns, smtp, sent, executions,
                   dbErrors, submitAttempts>>
    /\ UNCHANGED dbVars /\ UNCHANGED tableVars

\* send_email line 217: server.starttls() completes
StartTls ==
    /\ pc = "starttls"
    /\ smtp' = "tls"
    /\ pc' = "send_message"
    /\ UNCHANGED <<call, qidx, process_arguments, email_settings, locals, html_report,
                   html_content, alert_flag, msg, openConns, sent, error, executions,
                   dbErrors, smtpErrors, submitAttempts>>
    /\ UNCHANGED dbVars /\ UNCHANGED tableVars

\* a mutation of the failure path: the exception leaves without the with block closing the session
StartTlsFails_NoExit ==
    /\ pc = "starttls"
    /\ Raise("SMTPException")
    /\ smtpErrors' = smtpErrors + 1
    /\ UNCHANGED <<call, qidx, process_arguments, email_settings, locals, html_report,
                   html_content, alert_flag, msg, openConns, smtp, sent, executions,
                   dbErrors, submitAttempts>>
    /\ UNCHANGED dbVars /\ UNCHANGED tableVars
\* send_email line 217: server.starttls() raises; the with block's __exit__ closes the session
StartTlsFails ==
    /\ pc = "starttls"
    /\ Raise("SMTPException")
    /\ smtp' = "closed"
    /\ smtpErrors' = smtpErrors + 1
    /\ UNCHANGED <<call, qidx, process_arguments, email_settings, locals, html_report,
                   html_content, alert_flag, msg, openConns, sent, executions,
                   dbErrors, submitAttempts>>
    /\ UNCHANGED dbVars /\ UNCHANGED tableVars

\* send_email lines 218-219: the message is accepted, the with block ends, process() returns
SendMessage ==
    /\ pc = "send_message"
    /\ submitAttempts' = submitAttempts + 1
    /\ sent' = Append(sent, [message |-> msg, session |-> smtp])
    /\ smtp' = "closed"
    /\ pc' = "done"
    /\ UNCHANGED <<call, qidx, process_arguments, email_settings, locals, html_report,
                   html_content, alert_flag, msg, openConns, error, executions,
                   dbErrors, smtpErrors>>
    /\ UNCHANGED dbVars /\ UNCHANGED tableVars

\* a mutation of the failure path: the submission is tried again in a new session
SendMessageFails_Retry ==
    /\ pc = "send_message"
    /\ submitAttempts' = submitAttempts + 1
    /\ smtp' = "closed"
    /\ smtpErrors' = smtpErrors + 1
    /\ pc' = IF submitAttempts < 2 THEN "smtp_connect" ELSE "failed"
    /\ error' = IF submitAttempts < 2 THEN error ELSE "SMTPException"
    /\ UNCHANGED <<call, qidx, process_arguments, email_settings, locals, html_report,
                   html_content, alert_flag, msg, openConns, sent, executions,
                   dbErrors>>
    /\ UNCHANGED dbVars /\ UNCHANGED tableVars
\* send_email line 218: server.send_message raises; __exit__ closes the session
SendMessageFails ==
    /\ pc = "send_message"
    /\ submitAttempts' = submitAttempts + 1
    /\ Raise("SMTPException")
    /\ smtp' = "closed"
    /\ smtpErrors' = smtpErrors + 1
    /\ UNCHANGED <<call, qidx, process_arguments, email_settings, locals, html_report,
                   html_content, alert_flag, msg, openConns, sent, executions,
                   dbErrors>>
    /\ UNCHANGED dbVars /\ UNCHANGED tableVars

(***************************************************************************)
(* The environment: other writers of the database, and its clock           *)
(***************************************************************************)
\* a trigger finished a run: last_run becomes the current time, process_status the outcome
WriteTrigger ==
    /\ Running /\ writes < MaxWrites
    /\ \E i \in TriggerIds, s \in Statuses :
         /\ <<now, s>> # <<triggers[i].last_run, triggers[i].process_status>>
         /\ triggers' = [triggers EXCEPT ![i] = [last_run |-> now, process_status |-> s]]
    /\ writes' = writes + 1
    /\ dbChanged' = TRUE
    /\ UNCHANGED <<scheduled, now, clockBack>>
    /\ UNCHANGED runVars /\ UNCHANGED tableVars

\* a trigger is rescheduled, scheduled for the first time, or unscheduled
WriteSchedule ==
    /\ Running /\ writes < MaxWrites
    /\ \E i \in TriggerIds, nr \in Times \cup {NoRow} :
         /\ nr # scheduled[i]
         /\ scheduled' = [scheduled EXCEPT ![i] = nr]
    /\ writes' = writes + 1
    /\ dbChanged' = TRUE
    /\ UNCHANGED <<triggers, now, clockBack>>
    /\ UNCHANGED runVars /\ UNCHANGED tableVars

\* time passes
Tick ==
    /\ Running /\ now + 1 \in Clock
    /\ now' = now + 1
    /\ UNCHANGED <<triggers, scheduled, writes, dbChanged, clockBack>>
    /\ UNCHANGED runVars /\ UNCHANGED tableVars

\* the server's clock is set back (counted with the writes)
ClockSetBack ==
    /\ Running /\ writes < MaxWrites
    /\ now - 1 \in Clock
    /\ now' = now - 1
    /\ clockBack' = TRUE
    /\ writes' = writes + 1
    /\ UNCHANGED <<triggers, scheduled, dbChanged>>
    /\ UNCHANGED runVars /\ UNCHANGED tableVars

Init ==
    /\ \E p \in [TriggerIds -> InitialProfiles] :
         /\ triggers = [i \in TriggerIds |-> [last_run |-> p[i][1], process_status |-> p[i][2]]]
         /\ scheduled = [i \in TriggerIds |-> p[i][3]]
    /\ now \in Clock
    /\ writes = 0
    /\ pc = "start" /\ call = 1 /\ qidx = 1
    /\ process_arguments \in {GoodArguments, BadArguments}
    /\ email_settings = NoSettings
    /\ locals = EmptyLocals
    /\ html_report = <<>> /\ html_content = <<>> /\ alert_flag = FALSE
    /\ msg = NoMsg
    /\ openConns = 0 /\ smtp = "none" /\ sent = <<>> /\ error = ""
    /\ executions = [q \in {QueryOrder[k] : k \in 1..Len(QueryOrder)} |-> 0]
    /\ dbErrors = 0 /\ smtpErrors = 0 /\ submitAttempts = 0
    /\ dbChanged = FALSE /\ clockBack = FALSE
    /\ tpc = "idle" /\ data = <<>> /\ html_table = <<>>

Next ==
    \/ ProcessStart
    \/ GetDbConnection
    \/ GetDbConnectionFails
    \/ FetchData
    \/ FetchDataFails
    \/ ProcessGenerateHtmlReport
    \/ SendEmailGenerateHtmlReport
    \/ SendEmailBuildMessage
    \/ SmtpConnect
    \/ SmtpConnectFails
    \/ StartTls
    \/ StartTlsFails
    \/ SendMessage
    \/ SendMessageFails
    \/ WriteTrigger
    \/ WriteSchedule
    \/ Tick
    \/ ClockSetBack

Spec == Init /\ [][Next]_vars

(***************************************************************************)
(* SpecTable: convert_to_html_table applied to bounded result sets         *)
(***************************************************************************)
TableColumns == {<<"trigger_name">>, <<"trigger_name", "process_name">>}

\* cell values: a plain name, a NULL, and a name that holds markup
\* ("T1</td></tr><tr><td>T2")
CellValues ==
    {PyStr(<<"T1">>), PyNone, PyStr(<<"T1", "</td>", "</tr>", "<tr>", "<td>", "T2">>)}

\* fetchall() results of at most MaxRows rows of the given width
ResultsOfWidth(n) == UNION {[1..k -> [1..n -> CellValues]] : k \in 0..MaxRows}

InitTable ==
    /\ triggers = [i \in TriggerIds |-> [last_run |-> NULL, process_status |-> "Done"]]
    /\ scheduled = [i \in TriggerIds |-> NoRow]
    /\ now = 0 /\ writes = 0
    /\ pc = "idle" /\ call = 1 /\ qidx = 1
    /\ process_arguments = GoodArguments
    /\ email_settings = NoSettings
    /\ locals = EmptyLocals
    /\ html_report = <<>> /\ html_content = <<>> /\ alert_flag = FALSE
    /\ msg = NoMsg
    /\ openConns = 0 /\ smtp = "none" /\ sent = <<>> /\ error = ""
    /\ executions = [q \in {QueryOrder[k] : k \in 1..Len(QueryOrder)} |-> 0]
    /\ dbErrors = 0 /\ smtpErrors = 0 /\ submitAttempts = 0
    /\ dbChanged = FALSE /\ clockBack = FALSE
    /\ tpc = "input"
    /\ \E columns \in TableColumns :
         \E results \in ResultsOfWidth(Len(columns)) :
            data = fetch_data(columns, results)
    /\ html_table = <<>>

ConvertToHtmlTable ==
    /\ tpc = "input"
    /\ html_table' = convert_to_html_table(data)
    /\ tpc' = "done"
    /\ UNCHANGED data
    /\ UNCHANGED runVars /\ UNCHANGED dbVars

NextTable == ConvertToHtmlTable

SpecTable == InitTable /\ [][NextTable]_vars

(***************************************************************************)
(* Reading a document back                                                 *)
(***************************************************************************)
\* the first position of tok in s, Len(s) + 1 when it does not occur
IndexOf(s, tok) ==
    IF \E i \in 1..Len(s) : s[i] = tok
    THEN CHOOSE i \in 1..Len(s) : s[i] = tok /\ \A j \in 1..(i - 1) : s[j] # tok
    ELSE Len(s) + 1

Count(s, tok) == Cardinality({i \in 1..Len(s) : s[i] = tok})

\* the tokens after the first open and before the next close
Between(s, open, close) ==
    LET rest == SubSeq(s, IndexOf(s, open) + 1, Len(s))
    IN SubSeq(rest, 1, IndexOf(rest, close) - 1)

RECURSIVE Elements(_, _, _)
\* the contents of the elements open ... close of s, in document order
Elements(s, open, close) ==
    IF IndexOf(s, open) > Len(s) THEN <<>>
    ELSE LET rest == SubSeq(s, IndexOf(s, open) + 1, Len(s))
             b == IndexOf(rest, close)
         IN <<SubSeq(rest, 1, b - 1)>> \o Elements(SubSeq(rest, b + 1, Len(rest)), open, close)

\* the header cells and the body rows (each a sequence of cells) a reader finds in a table
HeaderCells(h) == Elements(Between(h, "<thead>", "</thead>"), "<th>", "</th>")
BodyRows(h) ==
    LET rows == Elements(Between(h, "<tbody>", "</tbody>"), "<tr>", "</tr>")
    IN [k \in 1..Len(rows) |-> Elements(rows[k], "<td>", "</td>")]

\* the section of a report under a heading: up to the next break or the end of the template
Section(doc, heading) ==
    LET rest == SubSeq(doc, IndexOf(doc, heading) + 1, Len(doc))
    IN SubSeq(rest, 1, Min(IndexOf(rest, SectionBreak), IndexOf(rest, TemplateTail)) - 1)

Body(m) == m.parts[1].payload

\* the trigger names of a result set
NamesOf(rs) == {rs[k][1][2] : k \in 1..Len(rs)}

Finished == pc \in {"done", "failed"}

(***************************************************************************)
(* Claims                                                                  *)
(***************************************************************************)

\* C1: for every email sent, the alert flag that decided its subject and priority
\* headers is true exactly when the missed-runs section or the overdue section
\* of that email's own body shows a table (a non-empty result set), whatever
\* writes were interleaved with the run's queries.
C1_AlertMatchesRenderedBody ==
    \A k \in 1..Len(sent) :
        alert_flag = ( \/ Section(Body(sent[k].message), HeadingMissed) # Placeholder
                       \/ Section(Body(sent[k].message), HeadingOverdue) # Placeholder )

\* C1 witness: an alerting email was sent in a run during which the database was
\* changed, so that its body differs from the report rendered first.
C1_Witness ==
    /\ Len(sent) = 1 /\ alert_flag /\ writes > 0
    /\ Body(sent[1].message) # html_report[1]

\* C2: once a fetch has raised a database error the run has failed with that
\* error, no SMTP session was opened and nothing was submitted; a session is
\* opened or a message submitted only after all query executions completed.
C2_NoPartialReport ==
    /\ dbErrors > 0 =>
         /\ pc = "failed" /\ error = "DatabaseError"
         /\ smtp = "none" /\ sent = <<>> /\ submitAttempts = 0
    /\ (smtp # "none" \/ sent # <<>>) =>
         /\ dbErrors = 0
         /\ \A q \in DOMAIN executions : executions[q] = 2

\* C2 witness: a query of the second report raised after the first report was rendered.
C2_Witness ==
    /\ pc = "failed" /\ dbErrors = 1 /\ call = 2 /\ openConns = 1
    /\ html_report # <<>>

\* C3: a built message has the warning suffix and the three priority headers
\* when the alert flag is true, and exactly the base subject and none of the
\* three headers when it is false.
C3_SubjectAndPriority ==
    msg # NoMsg =>
        IF alert_flag
        THEN /\ HeaderValues(msg, "Subject") = {<<BaseSubject, WarningSuffix>>}
             /\ HeaderValues(msg, "X-Priority") = {<<"1">>}
             /\ HeaderValues(msg, "X-MSMail-Priority") = {<<"High">>}
             /\ HeaderValues(msg, "Importance") = {<<"High">>}
        ELSE /\ HeaderValues(msg, "Subject") = {<<BaseSubject>>}
             /\ HeaderValues(msg, "X-Priority") = {}
             /\ HeaderValues(msg, "X-MSMail-Priority") = {}
             /\ HeaderValues(msg, "Importance") = {}

\* C3 witness: a message was built with the alert flag true.
C3_Witness == msg # NoMsg /\ alert_flag /\ pc = "smtp_connect"

\* C4: the body of the email sent is the HTML document that process() got from
\* its render step and passed to send_email.
C4_BodyIsTheArgument ==
    \A k \in 1..Len(sent) : Body(sent[k].message) = html_report[1]

\* C5: in a run that completes without error each of the four queries was
\* executed exactly once.
C5_EachQueryOnce ==
    pc = "done" => \A q \in DOMAIN executions : executions[q] = 1

\* C6: a run submits at most one message and tries at most once; a run that
\* ends without error has submitted exactly one; after an SMTP step failed the
\* run has ended with that error and nothing was submitted.
C6_OneEmailPerRun ==
    /\ Len(sent) <= 1 /\ submitAttempts <= 1
    /\ (Finished /\ error = "") => (pc = "done" /\ Len(sent) = 1)
    /\ pc = "done" => (error = "" /\ dbErrors = 0 /\ smtpErrors = 0)
    /\ smtpErrors > 0 =>
         /\ pc = "failed" /\ error = "SMTPException"
         /\ smtpErrors = 1 /\ sent = <<>>

\* C6 witness: the submission itself failed.
C6_Witness ==
    pc = "failed" /\ smtpErrors = 1 /\ submitAttempts = 1 /\ sent = <<>>

\* C7: when the run has ended, failed or not, no database connection that it
\* opened is still open.
C7_ConnectionsReleased == Finished => openConns = 0

\* C8: convert_to_html_table of an empty result set is the placeholder with no
\* table; of a non-empty one it is one table whose header cells are the keys of
\* row 0 in order and whose body rows are the rows of the result set in order.
C8_TableShape ==
    tpc = "done" =>
        IF data = <<>>
        THEN html_table = Placeholder /\ Count(html_table, "<table>") = 0
        ELSE /\ Count(html_table, "<table>") = 1
             /\ HeaderCells(html_table) = [j \in 1..Len(data[1]) |-> <<Keys(data[1])[j]>>]
             /\ BodyRows(html_table) =
                    [k \in 1..Len(data) |->
                        [j \in 1..Len(data[k]) |-> Format(Values(data[k])[j])]]

\* C9: when send_email has ended the SMTP session, if one was opened, is
\* closed, and every message was submitted in a session whose STARTTLS
\* had completed.
C9_SessionReleasedAndTls ==
    /\ Finished => smtp \in {"none", "closed"}
    /\ \A k \in 1..Len(sent) : sent[k].session = "tls"

\* C9 witness: STARTTLS failed; the session is closed and nothing was submitted.
C9_Witness ==
    pc = "failed" /\ smtpErrors = 1 /\ submitAttempts = 0 /\ smtp = "closed"

\* C10: when neither a write nor a backward clock step happened since the
\* missed-runs query of a report, every trigger of its missed-runs result is in
\* its overdue result, and the alert flag equals "overdue is non-empty".
C10_MissedWithinOverdue ==
    (qidx >= 3 /\ ~dbChanged /\ ~clockBack) =>
        /\ NamesOf(locals.missed_runs) \subseteq NamesOf(locals.overdue_processes)
        /\ AlertFlag(locals.missed_runs, locals.overdue_processes)
             = (locals.overdue_processes # <<>>)

\* C10 witness: an undisturbed report whose missed-runs result is not empty.
C10_Witness ==
    /\ qidx >= 3 /\ ~dbChanged /\ ~clockBack
    /\ locals.missed_runs # <<>>

====
